---- MODULE Spec2Model ----
(***************************************************************************)
(* Model of hyphen/dictools.py (PyHyphen): the registry of installed       *)
(* hyphenation dictionaries (class Dictionaries) and the installer         *)
(* functions built on it.                                                  *)
(*                                                                         *)
(* Python strings are TLA+ strings; a dict is the sequence of its entries  *)
(* in insertion order; the installation directory is one directory whose   *)
(* content is the registry document dictionaries.json and the dictionary   *)
(* files.                                                                  *)
(***************************************************************************)
EXTENDS Integers, Sequences, FiniteSets, TLC

VARIABLES
    dirExists,   \* os.path.exists(self.directory)
    docExists,   \* os.path.exists(self.path): dictionaries.json is on disk
    doc,         \* the content of dictionaries.json: <<key, file, url>> in document order
    files,       \* the dictionary files of the directory: file name -> content
    loaded,      \* the live instance: self._data is not None
    _data,       \* the live instance: self._data, entries in insertion order
    last,        \* the call that was made last: arguments, locals, result, I/O performed
    calls        \* the calls in progress, where calls are made step by step

vars == <<dirExists, docExists, doc, files, loaded, _data, last, calls>>

-----------------------------------------------------------------------------
(* Bounds of the model *)

\* the number of sources a dictionary is fetched from: source i is the URL
\* Url(i), and the content it serves is i
NumSources == 2

\* the number of contents the network serves for a dictionary
NumContents == 1

English == {"en_GB", "en_US"}

Locales == English \cup {"de"}

Sources == 1..NumSources

UrlPool == <<"http://a/hyph_x.dic", "http://b/hyph_y.dic", "http://c/hyph_z.dic">>

Url(i) == UrlPool[i]

\* the lists of associated locales passed to add
LocaleLists ==
    {<<>>, <<"en_GB">>, <<"en_US">>, <<"en_GB", "en_US">>, <<"en_US", "en_GB">>}

directory == "/d"

DEFAULT_REPOSITORY == "http://cgit.freedesktop.org/libreoffice/dictionaries/plain/"

-----------------------------------------------------------------------------
(* Python string and list primitives *)

Char(s, i) == SubSeq(s, i, i)

\* the characters in use, in ascending code point order
Ascii == " %-./0123456789:ABCDEFGHIJKLMNOPQRSTUVWXYZ_abcdefghijklmnopqrstuvwxyz"

\* ord(c) for the characters in use
OrdTable == [c \in {Char(Ascii, i) : i \in 1..Len(Ascii)} |->
                CHOOSE i \in 1..Len(Ascii) : Char(Ascii, i) = c]

Ord(c) == OrdTable[c]

\* a < b for two Python strings: code point by code point, a proper prefix first
RECURSIVE StrLess(_, _)
StrLess(a, b) ==
    IF b = "" THEN FALSE
    ELSE IF a = "" THEN TRUE
    ELSE IF Char(a, 1) = Char(b, 1)
         THEN StrLess(SubSeq(a, 2, Len(a)), SubSeq(b, 2, Len(b)))
         ELSE Ord(Char(a, 1)) < Ord(Char(b, 1))

RECURSIVE InsertSorted(_, _)
InsertSorted(s, x) ==
    IF s = <<>> THEN <<x>>
    ELSE IF StrLess(x, s[1]) THEN <<x>> \o s
    ELSE <<s[1]>> \o InsertSorted(SubSeq(s, 2, Len(s)), x)

RECURSIVE sorted(_)
sorted(s) ==
    IF s = <<>> THEN <<>>
    ELSE InsertSorted(sorted(SubSeq(s, 1, Len(s) - 1)), s[Len(s)])

join(dir, name) == dir \o "/" \o name

Range(s) == {s[i] : i \in 1..Len(s)}

-----------------------------------------------------------------------------
(* Python dict: entries [key, file, url] in insertion order *)

keys(d) == [i \in 1..Len(d) |-> d[i].key]

has(d, k) == \E i \in 1..Len(d) : d[i].key = k

get(d, k) == d[CHOOSE i \in 1..Len(d) : d[i].key = k]

\* as setitem, but an earlier binding of the key is kept (dict.setdefault)
setitem_setdefault(d, k, f, u) ==
    IF has(d, k) THEN d ELSE Append(d, [key |-> k, file |-> f, url |-> u])

\* d[k] = {"file": f, "url": u}: an existing key keeps its position
setitem(d, k, f, u) ==
    IF has(d, k)
    THEN [i \in 1..Len(d) |-> IF d[i].key = k THEN [key |-> k, file |-> f, url |-> u] ELSE d[i]]
    ELSE Append(d, [key |-> k, file |-> f, url |-> u])

RECURSIVE pop(_, _)
pop(d, k) ==
    IF d = <<>> THEN <<>>
    ELSE IF d[1].key = k THEN SubSeq(d, 2, Len(d))
    ELSE <<d[1]>> \o pop(SubSeq(d, 2, Len(d)), k)

RECURSIVE SortedEntries(_, _)
SortedEntries(d, ks) ==
    IF ks = <<>> THEN <<>>
    ELSE <<get(d, ks[1])>> \o SortedEntries(d, SubSeq(ks, 2, Len(ks)))

\* json.dump(data, f, indent=2, sort_keys=True)
json_dump(d) ==
    LET es == SortedEntries(d, sorted(keys(d)))
    IN  [i \in 1..Len(es) |-> <<es[i].key, es[i].file, es[i].url>>]

\* json.load(f): the keys in document order
json_load(t) == [i \in 1..Len(t) |-> [key |-> t[i][1], file |-> t[i][2], url |-> t[i][3]]]

-----------------------------------------------------------------------------
(* class Dictionaries.  A context c holds the instance (loaded, _data), the  *)
(* directory it works on (dirExists, docExists, doc, files) and the I/O the  *)
(* running call has performed (io).  A method returns                        *)
(* [c: the context after it, ret: its value, exc: the exception raised].     *)

\* F(v), with v evaluated once: the value of a local variable
Let(v, F(_)) == CHOOSE r \in {F(x) : x \in {v}} : TRUE

Ev(kind, arg) == [kind |-> kind, arg |-> arg]

Ret(c, ret) == [c |-> c, ret |-> ret, exc |-> "None"]

Raise(c, exc) == [c |-> c, ret |-> "None", exc |-> exc]

path == join(directory, "dictionaries.json")

\* as data, but a missing document is created with its directory
data_creates(c) ==
    IF c.loaded THEN c
    ELSE IF c.dirExists /\ c.docExists
         THEN [c EXCEPT !.loaded = TRUE,
                        !._data = json_load(c.doc),
                        !.io = Append(@, Ev("read", path))]
         ELSE [c EXCEPT !.loaded = TRUE, !._data = <<>>,
                        !.dirExists = TRUE, !.docExists = TRUE, !.doc = <<>>,
                        !.io = Append(@, Ev("write", path))]

\* the property Dictionaries.data: the context after the lazy load
data(c) ==
    IF c.loaded THEN c
    ELSE IF c.dirExists /\ c.docExists
         THEN [c EXCEPT !.loaded = TRUE,
                        !._data = json_load(c.doc),
                        !.io = Append(@, Ev("read", path))]
         ELSE [c EXCEPT !.loaded = TRUE, !._data = <<>>]

\* as installed_languages, without the sort
installed_languages_unsorted(c) == Let(data(c), LAMBDA c1 : Ret(c1, keys(c1._data)))

installed_languages(c) == Let(data(c), LAMBDA c1 : Ret(c1, sorted(keys(c1._data))))

is_installed(c, language) == Let(data(c), LAMBDA c1 : Ret(c1, has(c1._data, language)))

\* as filepath, but an unknown language is answered with the path its
\* dictionary would have
filepath_default(c, language) ==
    Let(data(c), LAMBDA c1 :
        IF has(c1._data, language)
        THEN Ret(c1, join(directory, get(c1._data, language).file))
        ELSE Ret(c1, join(directory, "hyph_" \o language \o ".dic")))

filepath(c, language) ==
    Let(data(c), LAMBDA c1 :
        IF has(c1._data, language)
        THEN Ret(c1, join(directory, get(c1._data, language).file))
        ELSE Raise(c1, "KeyError"))

\* as save, but self._data is written as it is, loaded or not
save_unloaded(c) ==
    Let(IF c.dirExists THEN c
        ELSE [c EXCEPT !.dirExists = TRUE, !.io = Append(@, Ev("makedirs", directory))],
        LAMBDA c2 :
            Ret([c2 EXCEPT !.loaded = TRUE,
                           !.docExists = TRUE,
                           !.doc = json_dump(c._data),
                           !.io = Append(@, Ev("write", path))],
                "None"))

\* as save, but the entries the document holds for other keys are kept
save_merging(c) ==
    Let(data(c), LAMBDA c1 :
    Let(IF c1.dirExists THEN c1
        ELSE [c1 EXCEPT !.dirExists = TRUE, !.io = Append(@, Ev("makedirs", directory))],
        LAMBDA c2 :
            Ret([c2 EXCEPT !.docExists = TRUE,
                           !.doc = json_dump(c1._data \o SelectSeq(json_load(c.doc),
                                                 LAMBDA e : ~has(c1._data, e.key))),
                           !.io = Append(@, Ev("write", path))],
                "None")))

save(c) ==
    Let(data(c), LAMBDA c1 :
    Let(IF c1.dirExists THEN c1
        ELSE [c1 EXCEPT !.dirExists = TRUE, !.io = Append(@, Ev("makedirs", directory))],
        LAMBDA c2 :
            Ret([c2 EXCEPT !.docExists = TRUE,
                           !.doc = json_dump(c1._data),
                           !.io = Append(@, Ev("write", path))],
                "None")))

\* as reload, but the mapping in memory is kept
reload_keeps(c) == Ret(c, "None")

reload(c) == Ret([c EXCEPT !.loaded = FALSE, !._data = <<>>], "None")

\* the loop of add over locales, from the i-th on
RECURSIVE BindFrom(_, _, _, _, _)
BindFrom(c, locales, filename, url, i) ==
    IF i > Len(locales) THEN c
    ELSE Let(data(c), LAMBDA c1 :
             BindFrom([c1 EXCEPT !._data = setitem(c1._data, locales[i], filename, url)],
                      locales, filename, url, i + 1))

add(c, language, content, locales, url) ==
    LET filename == "hyph_" \o language \o ".dic"
        fpath == join(directory, filename)
    IN  IF ~c.dirExists
        THEN Raise(c, "FileNotFoundError")
        ELSE Let([c EXCEPT
                    !.files = [f \in DOMAIN c.files \cup {filename} |->
                                  IF f = filename THEN content ELSE c.files[f]],
                    !.io = Append(@, Ev("write", fpath))],
                 LAMBDA c1 :
                     Let(BindFrom(c1, locales, filename, url, 1), LAMBDA c2 :
                         Ret(save(c2).c, fpath)))

RECURSIVE PopAll(_, _)
PopAll(d, ks) ==
    IF ks = <<>> THEN d
    ELSE PopAll(pop(d, ks[1]), SubSeq(ks, 2, Len(ks)))

\* as SameFile, but the language alone
SameFile_single(d, language) == <<language>>

\* the list `languages` of remove: the keys bound to the file of `language`
SameFile(d, language) ==
    LET filename == get(d, language).file
    IN  keys(SelectSeq(d, LAMBDA e : e.file = filename))

\* the end of remove: the file is deleted if it exists
Unlink(c, filename) ==
    IF filename \in DOMAIN c.files
    THEN Ret([c EXCEPT
                !.files = [f \in DOMAIN c.files \ {filename} |-> c.files[f]],
                !.io = Append(@, Ev("remove", join(directory, filename)))],
             "None")
    ELSE Ret(c, "None")

\* as remove, without the early return for an unknown language
remove_unguarded(c, language) ==
    Let(data(c), LAMBDA c1 :
        IF ~has(c1._data, language)
        THEN Ret(save(c1).c, "None")
        ELSE Let(save([c1 EXCEPT !._data = PopAll(c1._data, SameFile(c1._data, language))]).c,
                 LAMBDA c2 : Unlink(c2, get(c1._data, language).file)))

remove(c, language) ==
    Let(data(c), LAMBDA c1 :
        IF ~has(c1._data, language)
        THEN Ret(c1, "None")
        ELSE Let(save([c1 EXCEPT !._data = PopAll(c1._data, SameFile(c1._data, language))]).c,
                 LAMBDA c2 : Unlink(c2, get(c1._data, language).file)))

-----------------------------------------------------------------------------
(* More string primitives, for the parser *)

Upper == "ABCDEFGHIJKLMNOPQRSTUVWXYZ"

Lower == "abcdefghijklmnopqrstuvwxyz"

LowerTable ==
    [c \in {Char(Ascii, i) : i \in 1..Len(Ascii)} |->
        IF \E i \in 1..Len(Upper) : Char(Upper, i) = c
        THEN Char(Lower, CHOOSE i \in 1..Len(Upper) : Char(Upper, i) = c)
        ELSE c]

\* s.lower(), from character i on
RECURSIVE LowerFrom(_, _)
LowerFrom(s, i) ==
    IF i > Len(s) THEN "" ELSE LowerTable[Char(s, i)] \o LowerFrom(s, i + 1)

lower(s) == LowerFrom(s, 1)

\* sub in s
contains(s, sub) ==
    \E i \in 1..(Len(s) - Len(sub) + 1) : SubSeq(s, i, i + Len(sub) - 1) = sub

\* s.replace(a, b) for single characters a, b, from character i on
RECURSIVE ReplaceFrom(_, _, _, _)
ReplaceFrom(s, a, b, i) ==
    IF i > Len(s) THEN ""
    ELSE (IF Char(s, i) = a THEN b ELSE Char(s, i)) \o ReplaceFrom(s, a, b, i + 1)

\* as replace, but nothing is replaced
replace_nothing(s, a, b) == s

replace(s, a, b) == ReplaceFrom(s, a, b, 1)

\* s.split(): the maximal runs of non-blank characters, in order
split(s) ==
    LET starts == {i \in 1..Len(s) : Char(s, i) # " " /\ (i = 1 \/ Char(s, i - 1) = " ")}
        nth(n) == CHOOSE i \in starts : Cardinality({k \in starts : k < i}) = n - 1
        end(i) == CHOOSE j \in i..Len(s) :
                      /\ \A k \in i..j : Char(s, k) # " "
                      /\ j = Len(s) \/ Char(s, j + 1) = " "
    IN  [n \in 1..Cardinality(starts) |-> SubSeq(s, nth(n), end(nth(n)))]

-----------------------------------------------------------------------------
(* The descriptor documents.  A document is the sequence of its `node`       *)
(* elements in document order; a node has the values of its attributes and   *)
(* its children, each with the values of its attributes and the text of its  *)
(* first child.                                                              *)

Prop(name, type, text) == [attrs |-> <<name, type>>, text |-> text]

Node(name, children) == [attrs |-> <<name, "fuse">>, children |-> children]

\* dictionaries.xcu of English: a spelling dictionary, then the hyphenation
\* dictionary shared by two locales
XcuEn ==
    << Node("HunSpellDic_en_US",
            << Prop("Format", "xs:string", "DICT_SPELL"),
               Prop("Locations", "oor:string-list", "%origin%/en_US.aff %origin%/en_US.dic"),
               Prop("Locales", "oor:string-list", "en-US en-GB") >>),
       Node("HyphDic_en_US",
            << Prop("Format", "xs:string", "DICT_HYPH"),
               Prop("Locations", "oor:string-list", "%origin%/hyph_en_US.dic"),
               Prop("Locales", "oor:string-list", "en-US en-GB") >>) >>

\* dictionaries.xcu of German
XcuDe ==
    << Node("HyphDic_de",
            << Prop("Format", "xs:string", "DICT_HYPH"),
               Prop("Locations", "oor:string-list", "%origin%/hyph_de_DE.dic"),
               Prop("Locales", "oor:string-list", "de") >>) >>

\* the documents a descriptor fetch can answer with
Xcu == <<XcuEn, XcuDe>>

\* what the network answers to a descriptor fetch: 0, an URLError, or i, the document Xcu[i]
FetchAnswers == 0..Len(Xcu)

\* what the network answers to the content download: 0, an URLError, or the content i
DownloadAnswers == 0..NumContents

-----------------------------------------------------------------------------
(* The installer functions *)

\* Dictionaries(directory): a new instance on the directory of c
Dictionaries(c) == [c EXCEPT !.loaded = FALSE, !._data = <<>>]

\* the children of node with an attribute whose value is tag, whatever its case
Tagged(node, tag) ==
    {i \in 1..Len(node.children) :
        \E j \in 1..Len(node.children[i].attrs) : lower(node.children[i].attrs[j]) = tag}

Last(S) == CHOOSE x \in S : \A y \in S : y <= x

First(S) == CHOOSE x \in S : \A y \in S : x <= y

\* locales and dict_location after the loop over the properties of node: each
\* is assigned by every property tagged for it, so the last such property
\* decides; split()[0] of a blank location list raises IndexError
NodeRecord(node) ==
    [locales |->
        IF Tagged(node, "locales") = {} THEN <<>>
        ELSE split(replace(node.children[Last(Tagged(node, "locales"))].text, "-", "_")),
     dict_location |->
        IF Tagged(node, "locations") = {}
            \/ split(node.children[Last(Tagged(node, "locations"))].text) = <<>>
        THEN ""
        ELSE split(node.children[Last(Tagged(node, "locations"))].text)[1],
     exc |->
        IF \E i \in Tagged(node, "locations") : split(node.children[i].text) = <<>>
        THEN "IndexError" ELSE "None"]

node_is_hyphen(node) ==
    \E j \in 1..Len(node.attrs) : contains(lower(node.attrs[j]), "hyphdic")

\* as parse_dictionary_location, but the last record that matches is returned
parse_dictionary_location_last(descr_file, origin_url, language) ==
    LET hyphen == {i \in 1..Len(descr_file) : node_is_hyphen(descr_file[i])}
        ends == {i \in hyphen :
                    /\ language \in Range(NodeRecord(descr_file[i]).locales)
                    /\ NodeRecord(descr_file[i]).dict_location # ""}
        rec == NodeRecord(descr_file[Last(ends)])
    IN  IF ends = {} THEN [url |-> "", locales |-> <<>>, exc |-> "None"]
        ELSE [url |-> origin_url \o "/" \o SubSeq(rec.dict_location, 10, Len(rec.dict_location)),
              locales |-> rec.locales, exc |-> "None"]

\* parse_dictionary_location: [url: "" for None, locales, exc].  The loop ends
\* at the first hyphenation node that matches the language or raises.
parse_dictionary_location(descr_file, origin_url, language) ==
    LET hyphen == {i \in 1..Len(descr_file) : node_is_hyphen(descr_file[i])}
        ends == {i \in hyphen :
                    \/ NodeRecord(descr_file[i]).exc # "None"
                    \/ /\ language \in Range(NodeRecord(descr_file[i]).locales)
                       /\ NodeRecord(descr_file[i]).dict_location # ""}
        rec == NodeRecord(descr_file[First(ends)])
    IN  IF ends = {} THEN [url |-> "", locales |-> <<>>, exc |-> "None"]
        ELSE IF rec.exc # "None" THEN [url |-> "", locales |-> <<>>, exc |-> rec.exc]
        ELSE [url |-> origin_url \o "/" \o SubSeq(rec.dict_location, 10, Len(rec.dict_location)),
              locales |-> rec.locales, exc |-> "None"]

\* the URLs a descriptor is fetched from
Origins(repos) ==
    {repos \o l : l \in Locales} \cup {repos \o SubSeq(l, 1, 2) : l \in Locales}

\* parse_dictionary_location on the documents, origins and languages in use,
\* computed once
Parsed ==
    [i \in 1..Len(Xcu), origin_url \in Origins(DEFAULT_REPOSITORY), language \in Locales |->
        parse_dictionary_location(Xcu[i], origin_url, language)]

\* the fetch of _download_dictionaries_xcu, as an I/O event
_download_dictionaries_xcu(origin_url) == Ev("fetch", origin_url \o "/dictionaries.xcu")

\* as find_dictionary_location, but the second fetch is made for a language
\* without country code too
find_dictionary_location_retries(repos, language, s1, s2) ==
    LET second == s1 = 0
        origin_url == IF second THEN repos \o SubSeq(language, 1, 2) ELSE repos \o language
        descr_file == IF second THEN s2 ELSE s1
        io == <<_download_dictionaries_xcu(repos \o language)>>
                 \o (IF second THEN <<_download_dictionaries_xcu(origin_url)>> ELSE <<>>)
        parsed == Parsed[descr_file, origin_url, language]
    IN  IF descr_file = 0
        THEN [none |-> TRUE, url |-> "", locales |-> <<>>, exc |-> "None", io |-> io]
        ELSE IF parsed.url = ""
             THEN [none |-> FALSE, url |-> "", locales |-> <<>>, exc |-> "IOError",
                   io |-> io]
             ELSE [none |-> FALSE, url |-> parsed.url, locales |-> parsed.locales,
                   exc |-> "None", io |-> io]

\* as find_dictionary_location, but a failed first fetch is raised
find_dictionary_location_hard(repos, language, s1, s2) ==
    LET origin_url == repos \o language
        io == <<_download_dictionaries_xcu(origin_url)>>
        parsed == Parsed[s1, origin_url, language]
    IN  IF s1 = 0
        THEN [none |-> FALSE, url |-> "", locales |-> <<>>, exc |-> "URLError", io |-> io]
        ELSE IF parsed.url = ""
             THEN [none |-> FALSE, url |-> "", locales |-> <<>>, exc |-> "IOError",
                   io |-> io]
             ELSE [none |-> FALSE, url |-> parsed.url, locales |-> parsed.locales,
                   exc |-> "None", io |-> io]

\* as find_dictionary_location, but a document without a matching record is
\* answered like no document
find_dictionary_location_falls_through(repos, language, s1, s2) ==
    LET second == s1 = 0 /\ Len(language) > 2
        origin_url == IF second THEN repos \o SubSeq(language, 1, 2) ELSE repos \o language
        descr_file == IF second THEN s2 ELSE s1
        io == <<_download_dictionaries_xcu(repos \o language)>>
                 \o (IF second THEN <<_download_dictionaries_xcu(origin_url)>> ELSE <<>>)
        parsed == Parsed[descr_file, origin_url, language]
    IN  IF descr_file = 0 \/ parsed.url = ""
        THEN [none |-> TRUE, url |-> "", locales |-> <<>>, exc |-> "None", io |-> io]
        ELSE [none |-> FALSE, url |-> parsed.url, locales |-> parsed.locales,
              exc |-> "None", io |-> io]

\* find_dictionary_location when the network answers s1 to the first fetch and
\* s2 to the second: [none: None is returned, url, locales, exc, io]
find_dictionary_location(repos, language, s1, s2) ==
    LET second == s1 = 0 /\ Len(language) > 2
        origin_url == IF second THEN repos \o SubSeq(language, 1, 2) ELSE repos \o language
        descr_file == IF second THEN s2 ELSE s1
        io == <<_download_dictionaries_xcu(repos \o language)>>
                 \o (IF second THEN <<_download_dictionaries_xcu(origin_url)>> ELSE <<>>)
        parsed == Parsed[descr_file, origin_url, language]
    IN  IF descr_file = 0
        THEN [none |-> TRUE, url |-> "", locales |-> <<>>, exc |-> "None", io |-> io]
        ELSE IF parsed.exc # "None"
             THEN [none |-> FALSE, url |-> "", locales |-> <<>>, exc |-> parsed.exc, io |-> io]
             ELSE IF parsed.url = ""
                  THEN [none |-> FALSE, url |-> "", locales |-> <<>>, exc |-> "IOError",
                        io |-> io]
                  ELSE [none |-> FALSE, url |-> parsed.url, locales |-> parsed.locales,
                        exc |-> "None", io |-> io]

\* install(language, directory, use_description=use_description) on the
\* directory of c, when the network answers net = [s1, s2, dl]
install(c, language, use_description, net) ==
    Let(find_dictionary_location(DEFAULT_REPOSITORY, language, net.s1, net.s2),
        LAMBDA found :
    Let(IF use_description THEN [c EXCEPT !.io = @ \o found.io] ELSE c, LAMBDA c1 :
        LET repos == DEFAULT_REPOSITORY
            guess == ~use_description \/ found.url = ""
            dict_url == IF guess THEN repos \o "hyph_dict_" \o language \o ".dic"
                        ELSE found.url
            locales == IF guess THEN <<language>> ELSE found.locales
        IN  IF use_description /\ found.exc # "None"
            THEN Raise(c1, found.exc)
            ELSE IF use_description /\ found.none
                 THEN Raise(c1, "TypeError")
                 ELSE Let([c1 EXCEPT !.io = Append(@, Ev("download", dict_url))],
                          LAMBDA c2 :
                              IF net.dl = 0
                              THEN Raise(c2, "URLError")
                              ELSE add(Dictionaries(c2), language, net.dl, locales,
                                       dict_url))))

\* as install_if_necessary, without the test of is_installed
install_if_necessary_always(c, language, net) ==
    Let(install(Dictionaries(c), language, TRUE, net), LAMBDA installed :
        IF installed.exc # "None"
        THEN Raise(installed.c, installed.exc)
        ELSE Let(reload(installed.c).c, LAMBDA reloaded : filepath(reloaded, language)))

install_if_necessary(c, language, net) ==
    Let(is_installed(Dictionaries(c), language), LAMBDA dictionaries :
        IF dictionaries.ret
        THEN filepath(dictionaries.c, language)
        ELSE Let(install(dictionaries.c, language, TRUE, net), LAMBDA installed :
                 IF installed.exc # "None"
                 THEN Raise(installed.c, installed.exc)
                 \* dictionaries.reload(), then filepath, of the instance that
                 \* answered is_installed, on the directory as install left it
                 ELSE Let(reload([installed.c EXCEPT !.loaded = dictionaries.c.loaded,
                                                     !._data = dictionaries.c._data]).c,
                          LAMBDA reloaded : filepath(reloaded, language))))

list_installed(c) == installed_languages(Dictionaries(c))

\* the module's function is_installed
dictools_is_installed(c, language) == is_installed(Dictionaries(c), language)

uninstall(c, language) == remove(Dictionaries(c), language)

-----------------------------------------------------------------------------
(* The state machine of one live instance *)

\* the context of a call on the live instance
Live ==
    [loaded |-> loaded, _data |-> _data, dirExists |-> dirExists,
     docExists |-> docExists, doc |-> doc, files |-> files, io |-> <<>>]

\* the record of a call: its arguments and what the network answered (args),
\* its result and the I/O it performed; again: the call is an
\* install_if_necessary that follows a successful one for the same language
NoCall ==
    [op |-> "init", language |-> "", content |-> 0, locales |-> <<>>, url |-> "",
     use_description |-> FALSE, s1 |-> 0, s2 |-> 0, dl |-> 0, again |-> FALSE,
     ret |-> "None", exc |-> "None", io |-> <<>>]

Call(op, args, r) ==
    [f \in DOMAIN NoCall |->
        IF f = "op" THEN op
        ELSE IF f = "ret" THEN r.ret
        ELSE IF f = "exc" THEN r.exc
        ELSE IF f = "io" THEN r.c.io
        ELSE IF f \in DOMAIN args THEN args[f]
        ELSE NoCall[f]]

\* the call leaves the live instance and the directory as in r.c
Becomes(r) ==
    /\ loaded' = r.c.loaded
    /\ _data' = r.c._data
    /\ dirExists' = r.c.dirExists
    /\ docExists' = r.c.docExists
    /\ doc' = r.c.doc
    /\ files' = r.c.files
    /\ UNCHANGED calls

\* the calls of add that are made: a dictionary of English for any list of the
\* English locales, from any source, and the dictionary of German for its own
\* locale
AddArgs ==
    {[language |-> l, content |-> i, locales |-> s, url |-> Url(i)] :
        l \in English, i \in Sources, s \in LocaleLists}
    \cup {[language |-> "de", content |-> 1, locales |-> <<"de">>, url |-> Url(1)]}

Init ==
    /\ dirExists \in BOOLEAN
    /\ docExists = FALSE
    /\ doc = <<>>
    /\ files = <<>>
    /\ loaded = FALSE
    /\ _data = <<>>
    /\ last = NoCall
    /\ calls = <<>>

Add ==
    \E a \in AddArgs :
        \E r \in {add(Live, a.language, a.content, a.locales, a.url)} :
            /\ Becomes(r)
            /\ last' = Call("add", a, r)

Remove ==
    \E language \in Locales :
        \E r \in {remove(Live, language)},
           languages \in {IF has(data(Live)._data, language)
                          THEN SameFile(data(Live)._data, language) ELSE <<>>} :
            /\ Becomes(r)
            /\ last' = Call("remove", [language |-> language, locales |-> languages], r)

Save ==
    \E r \in {save(Live)} :
        /\ Becomes(r)
        /\ last' = Call("save", <<>>, r)

Reload ==
    \E r \in {reload(Live)} :
        /\ Becomes(r)
        /\ last' = Call("reload", <<>>, r)

IsInstalled ==
    \E language \in Locales :
        \E r \in {is_installed(Live, language)} :
            /\ Becomes(r)
            /\ last' = Call("is_installed", [language |-> language], r)

InstalledLanguages ==
    \E r \in {installed_languages(Live)} :
        /\ Becomes(r)
        /\ last' = Call("installed_languages", <<>>, r)

Filepath ==
    \E language \in Locales :
        \E r \in {filepath(Live, language)} :
            /\ Becomes(r)
            /\ last' = Call("filepath", [language |-> language], r)

Next ==
    \/ Add
    \/ Remove
    \/ Save
    \/ Reload
    \/ IsInstalled
    \/ InstalledLanguages
    \/ Filepath

Spec == Init /\ [][Next]_vars

-----------------------------------------------------------------------------
(* The state machine of the installer functions: each call works on an      *)
(* instance of its own, so only the directory lives on between calls        *)

Languages == Locales

\* the answers of the network to one call of install: an answer is drawn for
\* each request that is made (0 stands for no request too): the first fetch
\* with use_description, the second fetch for a language with a country code
\* whose first fetch failed, the download unless the lookup ended the call
NetAnswers(language, use_description) ==
    {n \in [s1 : FetchAnswers, s2 : FetchAnswers, dl : DownloadAnswers] :
        /\ ~use_description => n.s1 = 0
        /\ (n.s1 # 0 \/ Len(language) <= 2) => n.s2 = 0
        /\ (/\ use_description
            /\ find_dictionary_location(DEFAULT_REPOSITORY, language, n.s1, n.s2).url = "")
              => n.dl = 0}

\* the network as it would answer a call that ends up making no request: the
\* first descriptor and the content are there to be served
Unasked == [s1 |-> 1, s2 |-> 0, dl |-> 1]

\* the call leaves the directory as in r.c; its instance is dropped
Leaves(r) ==
    /\ dirExists' = r.c.dirExists
    /\ docExists' = r.c.docExists
    /\ doc' = r.c.doc
    /\ files' = r.c.files
    /\ UNCHANGED <<loaded, _data, calls>>

Install ==
    \E language \in Languages, use_description \in BOOLEAN :
        \E net \in NetAnswers(language, use_description) :
            \E r \in {install(Live, language, use_description, net)} :
                /\ Leaves(r)
                /\ last' = Call("install",
                                [language |-> language, use_description |-> use_description,
                                 s1 |-> net.s1, s2 |-> net.s2, dl |-> net.dl], r)

InstallIfNecessary ==
    \E language \in Languages :
        \E net \in IF dictools_is_installed(Live, language).ret
                   THEN {Unasked} ELSE NetAnswers(language, TRUE) :
            \E r \in {install_if_necessary(Live, language, net)} :
                /\ Leaves(r)
                /\ last' = Call("install_if_necessary",
                                [language |-> language, use_description |-> TRUE,
                                 s1 |-> net.s1, s2 |-> net.s2, dl |-> net.dl,
                                 again |-> /\ last.op = "install_if_necessary"
                                           /\ last.language = language
                                           /\ last.exc = "None"], r)

Uninstall ==
    \E language \in Languages :
        \E r \in {uninstall(Live, language)} :
            /\ Leaves(r)
            /\ last' = Call("uninstall", [language |-> language], r)

ListInstalled ==
    \E r \in {list_installed(Live)} :
        /\ Leaves(r)
        /\ last' = Call("list_installed", <<>>, r)

IsInstalledIn ==
    \E language \in Languages :
        \E r \in {dictools_is_installed(Live, language)} :
            /\ Leaves(r)
            /\ last' = Call("is_installed", [language |-> language], r)

NextInstaller ==
    \/ Install
    \/ InstallIfNecessary
    \/ Uninstall
    \/ ListInstalled
    \/ IsInstalledIn

SpecInstaller == Init /\ [][NextInstaller]_vars

-----------------------------------------------------------------------------
(* One live instance whose calls of add and remove are made step by step:   *)
(* calls is empty, or holds the call in progress with its locals and the    *)
(* step it is at                                                            *)

\* the steps of add, in the order of its statements: the file is written, the
\* locales are bound (one step for each), the mapping is saved
AddOrder == <<"write", "bind", "save">>

\* as RemoveOrder, but the file is deleted before the mapping is saved
RemoveOrder_unlink_first == <<"check", "pop", "unlink", "save">>

\* the steps of remove, in the order of its statements: the language is looked
\* up, the locales of its file are popped (one step for each), the mapping is
\* saved, the file is deleted
RemoveOrder == <<"check", "pop", "save", "unlink">>

\* the step that follows step pc in order; "return" after the last
After(order, pc) ==
    LET i == CHOOSE j \in 1..Len(order) : order[j] = pc
    IN  IF i = Len(order) THEN "return" ELSE order[i + 1]

\* the live instance and the directory become as in the context c
Assign(c) ==
    /\ loaded' = c.loaded
    /\ _data' = c._data
    /\ dirExists' = c.dirExists
    /\ docExists' = c.docExists
    /\ doc' = c.doc
    /\ files' = c.files

\* the call in progress goes on with step pc, its locals updated by upd
Goto(pc, upd) ==
    calls' = IF pc = "return" THEN <<>>
             ELSE <<[f \in DOMAIN calls[1] |->
                       IF f = "pc" THEN pc
                       ELSE IF f \in DOMAIN upd THEN upd[f] ELSE calls[1][f]]>>

At(op, pc) == calls # <<>> /\ calls[1].op = op /\ calls[1].pc = pc

StartAdd ==
    /\ calls = <<>>
    /\ \E a \in AddArgs :
          calls' = <<[op |-> "add", pc |-> AddOrder[1], language |-> a.language,
                      content |-> a.content, locales |-> a.locales, url |-> a.url,
                      filename |-> "hyph_" \o a.language \o ".dic", i |-> 1]>>
    /\ UNCHANGED <<dirExists, docExists, doc, files, loaded, _data, last>>

\* with open(filepath, 'wb') as f: f.write(content)
AddWrite ==
    /\ At("add", "write")
    /\ IF ~dirExists
       THEN /\ calls' = <<>>
            /\ UNCHANGED <<dirExists, docExists, doc, files, loaded, _data>>
       ELSE /\ Assign([Live EXCEPT
                          !.files = [f \in DOMAIN files \cup {calls[1].filename} |->
                                        IF f = calls[1].filename THEN calls[1].content
                                        ELSE files[f]]])
            /\ Goto(After(AddOrder, "write"), <<>>)
    /\ UNCHANGED last

\* one iteration of: for locale in locales: self.data[locale] = {...}
AddBind ==
    /\ At("add", "bind")
    /\ LET c == calls[1]
       IN  IF c.i > Len(c.locales)
           THEN /\ Goto(After(AddOrder, "bind"), <<>>)
                /\ UNCHANGED <<dirExists, docExists, doc, files, loaded, _data>>
           ELSE /\ \E c1 \in {data(Live)} :
                      Assign([c1 EXCEPT !._data = setitem(c1._data, c.locales[c.i],
                                                          c.filename, c.url)])
                /\ Goto("bind", [i |-> c.i + 1])
    /\ UNCHANGED last

\* self.save(), of add and of remove
StepSave ==
    /\ \/ At("add", "save")
       \/ At("remove", "save")
    /\ \E r \in {save(Live)} : Assign(r.c)
    /\ Goto(After(IF calls[1].op = "add" THEN AddOrder ELSE RemoveOrder, "save"), <<>>)
    /\ UNCHANGED last

StartRemove ==
    /\ calls = <<>>
    /\ \E language \in Locales :
          calls' = <<[op |-> "remove", pc |-> RemoveOrder[1], language |-> language,
                      filename |-> "", languages |-> <<>>, i |-> 1]>>
    /\ UNCHANGED <<dirExists, docExists, doc, files, loaded, _data, last>>

\* if language not in self.data: return; filename = ...; languages = [...]
RemoveCheck ==
    /\ At("remove", "check")
    /\ \E c1 \in {data(Live)} :
          /\ Assign(c1)
          /\ IF ~has(c1._data, calls[1].language)
             THEN calls' = <<>>
             ELSE Goto(After(RemoveOrder, "check"),
                       [filename |-> get(c1._data, calls[1].language).file,
                        languages |-> SameFile(c1._data, calls[1].language)])
    /\ UNCHANGED last

\* one iteration of: for locale in languages: self.data.pop(locale)
RemovePop ==
    /\ At("remove", "pop")
    /\ LET c == calls[1]
       IN  IF c.i > Len(c.languages)
           THEN /\ Goto(After(RemoveOrder, "pop"), <<>>)
                /\ UNCHANGED <<dirExists, docExists, doc, files, loaded, _data>>
           ELSE /\ \E c1 \in {data(Live)} :
                      Assign([c1 EXCEPT !._data = pop(c1._data, c.languages[c.i])])
                /\ Goto("pop", [i |-> c.i + 1])
    /\ UNCHANGED last

\* if os.path.exists(filepath): os.remove(filepath)
RemoveUnlink ==
    /\ At("remove", "unlink")
    /\ \E r \in {Unlink(Live, calls[1].filename)} : Assign(r.c)
    /\ Goto(After(RemoveOrder, "unlink"), <<>>)
    /\ UNCHANGED last

NextSteps ==
    \/ StartAdd
    \/ AddWrite
    \/ AddBind
    \/ StepSave
    \/ StartRemove
    \/ RemoveCheck
    \/ RemovePop
    \/ RemoveUnlink

SpecSteps == Init /\ [][NextSteps]_vars

-----------------------------------------------------------------------------
(* Two processes that install different languages into the same directory,  *)
(* each with install(language, use_description=False), interleaved at the   *)
(* requests and at the reads and writes of files.  calls.proc[p] is the     *)
(* call of process p: the step it is at, its locals, and the instance that  *)
(* its install constructs; calls.log lists the accesses to the registry     *)
(* document, <<p, "read">> and <<p, "write">>, in the order they are made.   *)

Procs == {1, 2}

Other(p) == CHOOSE q \in Procs : q # p

\* the context of a step of process p: its instance on the shared directory
Ctx(p) ==
    [loaded |-> calls.proc[p].loaded, _data |-> calls.proc[p]._data,
     dirExists |-> dirExists, docExists |-> docExists, doc |-> doc, files |-> files,
     io |-> <<>>]

\* process p goes on with step pc, its locals updated by upd; the accesses
\* evs are added to the log
Proceed(p, pc, upd, evs) ==
    calls' = [proc |-> [calls.proc EXCEPT ![p] =
                           [f \in DOMAIN calls.proc[p] |->
                               IF f = "pc" THEN pc
                               ELSE IF f \in DOMAIN upd THEN upd[f] ELSE calls.proc[p][f]]],
              log |-> calls.log \o evs]

\* the directory becomes as in the context c
AssignDirectory(c) ==
    /\ dirExists' = c.dirExists
    /\ docExists' = c.docExists
    /\ doc' = c.doc
    /\ files' = c.files

InitRace ==
    /\ dirExists \in BOOLEAN
    /\ docExists = FALSE
    /\ doc = <<>>
    /\ files = <<>>
    /\ loaded = FALSE
    /\ _data = <<>>
    /\ last = NoCall
    /\ \E l \in [Procs -> Locales] :
          /\ l[1] # l[2]
          /\ calls = [proc |-> [p \in Procs |->
                                   [pc |-> "download", language |-> l[p], content |-> 0,
                                    loaded |-> FALSE, _data |-> <<>>,
                                    ret |-> "None", exc |-> "None"]],
                      log |-> <<>>]

\* dict_content = urllib.request.urlopen(dict_url).read()
RaceDownload(p) ==
    /\ calls.proc[p].pc = "download"
    /\ \E dl \in DownloadAnswers :
          IF dl = 0
          THEN Proceed(p, "raised", [exc |-> "URLError"], <<>>)
          ELSE Proceed(p, "write", [content |-> dl], <<>>)
    /\ UNCHANGED <<dirExists, docExists, doc, files, loaded, _data, last>>

\* add: with open(filepath, 'wb') as f: f.write(content)
RaceWrite(p) ==
    /\ calls.proc[p].pc = "write"
    /\ IF ~dirExists
       THEN /\ Proceed(p, "raised", [exc |-> "FileNotFoundError"], <<>>)
            /\ UNCHANGED files
       ELSE /\ files' = [f \in DOMAIN files \cup {"hyph_" \o calls.proc[p].language \o ".dic"} |->
                            IF f = "hyph_" \o calls.proc[p].language \o ".dic"
                            THEN calls.proc[p].content ELSE files[f]]
            /\ Proceed(p, "bind", <<>>, <<>>)
    /\ UNCHANGED <<dirExists, docExists, doc, loaded, _data, last>>

\* add: self.data[language] = {...}, the first access of the instance to its
\* data, which looks for the document and reads it
RaceBind(p) ==
    /\ calls.proc[p].pc = "bind"
    /\ \E c1 \in {data(Ctx(p))} :
          Proceed(p, "save",
                  [loaded |-> TRUE,
                   _data |-> setitem(c1._data, calls.proc[p].language,
                                     "hyph_" \o calls.proc[p].language \o ".dic",
                                     DEFAULT_REPOSITORY \o "hyph_dict_"
                                         \o calls.proc[p].language \o ".dic")],
                  <<<<p, "read">>>>)
    /\ UNCHANGED <<dirExists, docExists, doc, files, loaded, _data, last>>

\* add: self.save(); return filepath
RaceSave(p) ==
    /\ calls.proc[p].pc = "save"
    /\ \E r \in {save(Ctx(p))} :
          /\ AssignDirectory(r.c)
          /\ Proceed(p, "returned",
                     [ret |-> join(directory, "hyph_" \o calls.proc[p].language \o ".dic"),
                      _data |-> r.c._data],
                     <<<<p, "write">>>>)
    /\ UNCHANGED <<loaded, _data, last>>

NextRace ==
    \E p \in Procs :
        \/ RaceDownload(p)
        \/ RaceWrite(p)
        \/ RaceBind(p)
        \/ RaceSave(p)

SpecRace == InitRace /\ [][NextRace]_vars

-----------------------------------------------------------------------------
(* One live instance that is queried and reloaded while the installer       *)
(* functions, each on an instance of its own, change the directory          *)

\* the network serves every request: the first descriptor fetch is answered
\* with one of the documents, the download with a content
SharedAnswers ==
    {[s1 |-> i, s2 |-> 0, dl |-> j] : i \in 1..Len(Xcu), j \in 1..NumContents}

\* install_if_necessary, called beside the live instance
InstallBeside ==
    \E language \in Languages, net \in SharedAnswers :
        \E r \in {install_if_necessary(Live, language, net)} :
            /\ Leaves(r)
            /\ last' = Call("install_if_necessary",
                            [language |-> language, use_description |-> TRUE,
                             s1 |-> net.s1, s2 |-> net.s2, dl |-> net.dl], r)

NextShared ==
    \/ IsInstalled
    \/ InstalledLanguages
    \/ Filepath
    \/ Reload
    \/ InstallBeside
    \/ Uninstall

SpecShared == Init /\ [][NextShared]_vars

-----------------------------------------------------------------------------
(* The parser on its own: a descriptor document, an origin and a language   *)
(* are drawn, and parse_dictionary_location is applied to them              *)

\* the longest descriptor document, in nodes
MaxNodes == 3

\* the nodes a descriptor document is made of, each with what it declares: it
\* is a hyphenation record (hyph), its locales, and the file of its first
\* location ("" if it has no location)
ParserNodes ==
    << [node |-> Node("HunSpellDic_en_US",
                      << Prop("Locations", "oor:string-list",
                              "%origin%/en_US.aff %origin%/en_US.dic"),
                         Prop("Locales", "oor:string-list", "en-US en-GB") >>),
        hyph |-> FALSE, locales |-> <<"en_US", "en_GB">>, file |-> "en_US.aff"],
       [node |-> Node("HyphDic_en_US",
                      << Prop("Format", "xs:string", "DICT_HYPH"),
                         Prop("Locations", "oor:string-list", "%origin%/hyph_en_US.dic"),
                         Prop("Locales", "oor:string-list", "en-US en-GB") >>),
        hyph |-> TRUE, locales |-> <<"en_US", "en_GB">>, file |-> "hyph_en_US.dic"],
       [node |-> Node("hyphdic_en_GB",
                      << Prop("Locales", "oor:string-list", "en-GB"),
                         Prop("Locations", "oor:string-list",
                              "%origin%/hyph_en_GB.dic %origin%/hyph_en_GB_2.dic") >>),
        hyph |-> TRUE, locales |-> <<"en_GB">>, file |-> "hyph_en_GB.dic"],
       [node |-> Node("HyphDic_en_GB_unlocated",
                      << Prop("Locales", "oor:string-list", "en-GB en-US") >>),
        hyph |-> TRUE, locales |-> <<"en_GB", "en_US">>, file |-> ""],
       [node |-> Node("HyphDic_nowhere",
                      << Prop("Locations", "oor:string-list", "%origin%/hyph_xx.dic") >>),
        hyph |-> TRUE, locales |-> <<>>, file |-> "hyph_xx.dic"],
       [node |-> Node("HyphDic_en",
                      << Prop("Locations", "oor:string-list", "%origin%/hyph_en.dic"),
                         Prop("Locales", "oor:string-list", "en") >>),
        hyph |-> TRUE, locales |-> <<"en">>, file |-> "hyph_en.dic"] >>

\* the documents: the sequences of at most MaxNodes nodes, by their indices
ParserDocuments ==
    UNION {[1..n -> 1..Len(ParserNodes)] : n \in 0..MaxNodes}

ParserLanguages == {"en_US", "en_GB", "en"}

ParserOrigins == {DEFAULT_REPOSITORY \o "en_GB", DEFAULT_REPOSITORY \o "en"}

\* the document of the nodes ns
Document(ns) == [i \in 1..Len(ns) |-> ParserNodes[ns[i]].node]

InitParser ==
    /\ dirExists = FALSE
    /\ docExists = FALSE
    /\ doc = <<>>
    /\ files = <<>>
    /\ loaded = FALSE
    /\ _data = <<>>
    /\ calls = <<>>
    /\ last \in [op : {"input"}, nodes : ParserDocuments, origin_url : ParserOrigins,
                 language : ParserLanguages, url : {""}, locales : {<<>>}, exc : {"None"}]

Parse ==
    /\ last.op = "input"
    /\ \E r \in {parse_dictionary_location(Document(last.nodes), last.origin_url,
                                           last.language)} :
          last' = [last EXCEPT !.op = "parse", !.url = r.url, !.locales = r.locales,
                               !.exc = r.exc]
    /\ UNCHANGED <<dirExists, docExists, doc, files, loaded, _data, calls>>

NextParser == Parse

SpecParser == InitParser /\ [][NextParser]_vars

-----------------------------------------------------------------------------
(* Vocabulary of the properties *)

\* the mapping as the live instance sees it: self.data
View == data(Live)._data

Entries(d) == {d[i] : i \in 1..Len(d)}

Keys(d) == {d[i].key : i \in 1..Len(d)}

\* the keys of d bound to file f
BoundTo(d, f) == {d[i].key : i \in {j \in 1..Len(d) : d[j].file = f}}

\* the persisted document holds exactly the mapping d
Persisted(t, d) == Entries(json_load(t)) = Entries(d)

FileName(language) == "hyph_" \o language \o ".dic"

\* the I/O events of kind k on path p
Events(io, k, p) == SelectSeq(io, LAMBDA e : e.kind = k /\ e.arg = p)

\* the events that change the disk
Writes(io) == SelectSeq(io, LAMBDA e : e.kind \in {"write", "makedirs", "remove"})

\* the content of the file at path p, 0 if there is none
ReadPath(p) ==
    IF \E f \in DOMAIN files : join(directory, f) = p
    THEN files[CHOOSE f \in DOMAIN files : join(directory, f) = p]
    ELSE 0

-----------------------------------------------------------------------------
(* Properties of the registry, under Spec *)

\* C1: remove(l) of a registered locale l removes from the mapping every locale
\* bound to the file of l, persists the result and deletes that file exactly
\* once; afterwards none of those locales is installed, the file is gone, and
\* the entries bound to other files, and the other files, are unchanged.
C1_SharedFileRemoval ==
    [][(last'.op = "remove" /\ has(View, last'.language)) =>
        LET f == get(View, last'.language).file
            G == BoundTo(View, f)
        IN  /\ last'.exc = "None"
            /\ \A k \in G : ~has(_data', k) /\ ~is_installed(Live', k).ret
            /\ \A k \in Keys(View) \ G : has(_data', k) /\ get(_data', k) = get(View, k)
            /\ Keys(_data') = Keys(View) \ G
            /\ docExists' /\ Persisted(doc', _data')
            /\ f \notin DOMAIN files'
            /\ Len(Events(last'.io, "remove", join(directory, f))) = 1
            /\ Len(SelectSeq(last'.io, LAMBDA e : e.kind = "remove")) = 1
            /\ DOMAIN files' = DOMAIN files \ {f}
            /\ \A g \in DOMAIN files' : files'[g] = files[g]
      ]_vars

\* C1 witness: a remove of one of two locales sharing a file has deleted the
\* file while an entry bound to another file remains.
C1_Witness ==
    /\ last.op = "remove"
    /\ Len(last.locales) = 2
    /\ Len(SelectSeq(last.io, LAMBDA e : e.kind = "remove")) = 1
    /\ _data # <<>>

\* C6: add(loc, content, [loc], url) followed by filepath(loc) returns the path
\* add returned, and the file at that path holds content - from every state of
\* the registry and of the directory, a directory not yet created included.
C6_RoundTrip ==
    (last.op = "add" /\ last.locales = <<last.language>>) =>
        /\ last.exc = "None"
        /\ filepath(Live, last.language).exc = "None"
        /\ filepath(Live, last.language).ret = last.ret
        /\ ReadPath(filepath(Live, last.language).ret) = last.content

\* what holds of the round trip: it succeeds whenever the directory exists
C6_RoundTripExistingDirectory ==
    (last.op = "add" /\ last.locales = <<last.language>> /\ dirExists) =>
        /\ last.exc = "None"
        /\ filepath(Live, last.language).exc = "None"
        /\ filepath(Live, last.language).ret = last.ret
        /\ ReadPath(filepath(Live, last.language).ret) = last.content

\* C7: an add that returns binds every locale of associated_locales to
\* hyph_<locale>.dic with the given source_url, leaves the entries of all other
\* locales unchanged, has persisted the mapping, and returns the path of
\* hyph_<locale>.dic.
C7_AddBindsLocales ==
    [][(last'.op = "add" /\ last'.exc = "None") =>
        LET A == Range(last'.locales)
        IN  /\ \A k \in A :
                  /\ has(_data', k)
                  /\ get(_data', k).file = FileName(last'.language)
                  /\ get(_data', k).url = last'.url
            /\ \A k \in Keys(View) \ A : has(_data', k) /\ get(_data', k) = get(View, k)
            /\ Keys(_data') = Keys(View) \cup A
            /\ docExists' /\ Persisted(doc', _data')
            /\ last'.ret = join(directory, FileName(last'.language))
      ]_vars

\* C7 witness: an add has rebound a locale that was bound to another file,
\* next to an entry it left alone.
C7_Witness ==
    /\ last.op = "add"
    /\ last.exc = "None"
    /\ last.locales = <<"en_GB">>
    /\ last.language = "en_GB"
    /\ has(_data, "en_US")
    /\ get(_data, "en_US").file = "hyph_en_US.dic"
    /\ "hyph_en_US.dic" \in DOMAIN files
    /\ has(_data, "de")

\* C8: remove(locale) of a locale that is not in the registry changes neither
\* the mapping, nor the persisted document, nor any file, writes nothing and
\* raises nothing.
C8_RemoveUnknownNoOp ==
    [][(last'.op = "remove" /\ ~has(View, last'.language)) =>
        /\ last'.exc = "None"
        /\ _data' = View
        /\ dirExists' = dirExists
        /\ docExists' = docExists
        /\ doc' = doc
        /\ files' = files
        /\ Writes(last'.io) = <<>>
      ]_vars

\* C8 witness: a remove of an unregistered locale on a registry that holds
\* other locales.
C8_Witness ==
    /\ last.op = "remove"
    /\ ~has(_data, last.language)
    /\ last.locales = <<>>
    /\ last.io = <<>>
    /\ _data # <<>>
    /\ docExists

\* C9: installed_languages returns exactly the locales of the registry, each
\* once, in ascending lexicographic order, whatever the order they were added
\* in; a second call with no mutation in between returns the same sequence.
C9_SortedListing ==
    (last.op = "installed_languages") =>
        /\ last.exc = "None"
        /\ Range(last.ret) = Keys(_data)
        /\ \A i, j \in 1..Len(last.ret) : i < j => StrLess(last.ret[i], last.ret[j])
        /\ installed_languages(Live).ret = last.ret

\* C9 witness: a listing of three locales that were added in another order.
C9_Witness ==
    /\ last.op = "installed_languages"
    /\ last.ret = <<"de", "en_GB", "en_US">>
    /\ keys(_data) = <<"en_US", "de", "en_GB">>

\* C10: on a directory with no registry document (or no directory), the first
\* access loads an empty registry: is_installed is false for every locale and
\* installed_languages is empty, nothing is raised, and the query creates
\* neither the directory nor the document.
C10_MissingRegistryFile ==
    [][(~loaded /\ ~docExists /\ last'.op \in {"is_installed", "installed_languages"}) =>
        /\ last'.exc = "None"
        /\ last'.op = "is_installed" => last'.ret = FALSE
        /\ last'.op = "installed_languages" => last'.ret = <<>>
        /\ \A l \in Locales : ~is_installed(Live', l).ret
        /\ loaded' /\ _data' = <<>>
        /\ dirExists' = dirExists
        /\ docExists' = FALSE
        /\ files' = files
        /\ last'.io = <<>>
      ]_vars

\* C10 witness: is_installed has answered on a directory that does not exist.
C10_Witness ==
    /\ last.op = "is_installed"
    /\ last.ret = FALSE
    /\ ~dirExists
    /\ loaded

\* C11: filepath(locale) fails with the not-found error of the mapping
\* (KeyError) whenever locale is absent from the registry, and changes nothing
\* then; otherwise it returns the installation directory joined with the file
\* name bound to locale, which is the same path for every locale bound to that
\* file.
C11_FilepathNotFound ==
    [][(last'.op = "filepath") =>
        IF has(View, last'.language)
        THEN /\ last'.exc = "None"
             /\ last'.ret = join(directory, get(View, last'.language).file)
             /\ \A k \in BoundTo(View, get(View, last'.language).file) :
                   /\ filepath(Live', k).exc = "None"
                   /\ filepath(Live', k).ret = last'.ret
        ELSE /\ last'.exc = "KeyError"
             /\ last'.ret = "None"
             /\ _data' = View
             /\ UNCHANGED <<dirExists, docExists, doc, files>>
             /\ Writes(last'.io) = <<>>
      ]_vars

\* C11 witness: filepath of a locale that is not registered has failed on a
\* registry in which two other locales share a file.
C11_Witness ==
    /\ last.op = "filepath"
    /\ last.language = "de"
    /\ last.exc = "KeyError"
    /\ BoundTo(_data, "hyph_en_US.dic") = {"en_GB", "en_US"}

\* C15: save never loses persisted data: on an instance that is not loaded
\* (new, or after reload) it loads the mapping from the document first, so the
\* document holds the same entries after it as before; it creates the
\* installation directory if it is absent; after any save the document exists
\* and equals the in-memory mapping of the instance.
C15_SaveKeepsData ==
    [][(last'.op = "save") =>
        /\ last'.exc = "None"
        /\ ~loaded =>
              /\ Entries(json_load(doc')) = Entries(json_load(doc))
              /\ docExists => last'.io[1] = Ev("read", path)
        /\ loaded' /\ _data' = View
        /\ dirExists'
        /\ ~dirExists <=> Events(last'.io, "makedirs", directory) # <<>>
        /\ docExists' /\ Persisted(doc', _data')
        /\ doc' = json_dump(_data')
        /\ last'.io[Len(last'.io)] = Ev("write", path)
        /\ files' = files
      ]_vars

\* C15 witness: a save on an instance that was not loaded has read the
\* document, which held entries, and written them back.
C15_Witness ==
    /\ last.op = "save"
    /\ last.io = <<Ev("read", path), Ev("write", path)>>
    /\ Len(doc) = 2

-----------------------------------------------------------------------------
(* Properties of the installer, under SpecInstaller *)

Fetches(io) == SelectSeq(io, LAMBDA e : e.kind = "fetch")

Downloads(io) == SelectSeq(io, LAMBDA e : e.kind = "download")

XcuUrl(language) == DEFAULT_REPOSITORY \o language \o "/dictionaries.xcu"

GuessedUrl(language) == DEFAULT_REPOSITORY \o "hyph_dict_" \o language \o ".dic"

\* the call found no descriptor document in either stage
NoMetadata(call) ==
    call.s1 = 0 /\ (Len(call.language) <= 2 \/ call.s2 = 0)

\* the document the call obtained (0: none) and the URL it came from
Obtained(call) ==
    IF call.s1 # 0 \/ Len(call.language) <= 2 THEN call.s1 ELSE call.s2

ObtainedFrom(call) ==
    IF call.s1 # 0 \/ Len(call.language) <= 2
    THEN DEFAULT_REPOSITORY \o call.language
    ELSE DEFAULT_REPOSITORY \o SubSeq(call.language, 1, 2)

\* the call obtained a document that holds no record for its language
NoRecord(call) ==
    /\ Obtained(call) # 0
    /\ Parsed[Obtained(call), ObtainedFrom(call), call.language].url = ""

\* the registry document binds locale k to file f with source u
DocBinds(k, f, u) == \E i \in 1..Len(doc) : doc[i] = <<k, f, u>>

\* C2: install(language, use_description=true), when no descriptor document is
\* obtainable in either stage, downloads from the guessed URL and registers the
\* content with locales = [language], returning the installed path.
C2_GuessFallback ==
    (/\ last.op = "install"
     /\ last.use_description
     /\ NoMetadata(last)
     /\ dirExists) =>
        /\ Len(Downloads(last.io)) = 1
        /\ Downloads(last.io)[1].arg = GuessedUrl(last.language)
        /\ last.dl # 0 =>
              /\ last.exc = "None"
              /\ last.ret = join(directory, FileName(last.language))
              /\ DocBinds(last.language, FileName(last.language), GuessedUrl(last.language))

\* what the code does in the case of C2: the call raises TypeError, requests no
\* download and leaves the directory as it was
C2_NoMetadataRaises ==
    [][(/\ last'.op = "install"
        /\ last'.use_description
        /\ NoMetadata(last')) =>
            /\ last'.exc = "TypeError"
            /\ Downloads(last'.io) = <<>>
            /\ UNCHANGED <<dirExists, docExists, doc, files>>
      ]_vars

\* C3: the descriptor at repo_base + language is fetched first; the one at
\* repo_base + language[:2] is fetched if and only if the first fetch yielded no
\* document and language is longer than 2 characters, and it is parsed against
\* the untruncated language with the truncated URL as origin; the lookup ends
\* with "no metadata", the only case for a guessed URL, only after these
\* fetches yielded no document, and no guessed URL is downloaded otherwise.
C3_FallbackOrdering ==
    (last.op = "install" /\ last.use_description) =>
        LET fetches == Fetches(last.io)
            second == last.s1 = 0 /\ Len(last.language) > 2
            truncated == DEFAULT_REPOSITORY \o SubSeq(last.language, 1, 2)
        IN  /\ Len(fetches) >= 1
            /\ last.io[1] = Ev("fetch", XcuUrl(last.language))
            /\ Len(fetches) = IF second THEN 2 ELSE 1
            /\ second => last.io[2] = Ev("fetch", XcuUrl(SubSeq(last.language, 1, 2)))
            /\ (second /\ last.s2 # 0) =>
                  LET parsed == Parsed[last.s2, truncated, last.language]
                  IN  /\ (last.exc = "IOError") <=> (parsed.url = "")
                      /\ parsed.url # "" =>
                            /\ Downloads(last.io) = <<Ev("download", parsed.url)>>
                            /\ SubSeq(parsed.url, 1, Len(truncated) + 1) = truncated \o "/"
                            /\ last.language \in Range(parsed.locales)
                            /\ (last.dl # 0 /\ dirExists) =>
                                  \A k \in Range(parsed.locales) :
                                      DocBinds(k, FileName(last.language), parsed.url)
            /\ (last.exc = "TypeError") <=> NoMetadata(last)
            /\ \A i \in 1..Len(last.io) :
                  last.io[i] = Ev("download", GuessedUrl(last.language)) =>
                      NoMetadata(last) /\ i > Len(fetches)

\* C3 witness: the first fetch failed, the second, for the truncated code, gave
\* the document in which en_US was found, and the dictionary was installed from
\* under the truncated URL.
C3_Witness ==
    /\ last.op = "install"
    /\ last.use_description
    /\ last.language = "en_US"
    /\ last.s1 = 0
    /\ last.s2 = 1
    /\ last.exc = "None"
    /\ Len(Fetches(last.io)) = 2
    /\ DocBinds("en_GB", "hyph_en_US.dic", DEFAULT_REPOSITORY \o "en/hyph_en_US.dic")

\* C4: whenever a descriptor document was obtained in either stage but no
\* record in it matches the language, install fails with the "no dictionary
\* found" error, downloads nothing, and leaves the registry document and the
\* dictionary files unchanged; a first document without a match is not
\* followed by the second fetch.
C4_DictionaryNotFound ==
    [][(/\ last'.op = "install"
        /\ last'.use_description
        /\ NoRecord(last')) =>
            /\ last'.exc = "IOError"
            /\ Downloads(last'.io) = <<>>
            /\ Writes(last'.io) = <<>>
            /\ last'.s1 # 0 => Fetches(last'.io) = <<Ev("fetch", XcuUrl(last'.language))>>
            /\ UNCHANGED <<dirExists, docExists, doc, files>>
      ]_vars

\* C4 witness: install of en_US got, in the second stage, a document with no
\* record for en_US, on a registry that holds other locales, and failed.
C4_Witness ==
    /\ last.op = "install"
    /\ last.use_description
    /\ last.language = "en_US"
    /\ last.s1 = 0
    /\ last.s2 = 2
    /\ last.exc = "IOError"
    /\ doc # <<>>

\* C5, as stated: two consecutive successful calls install_if_necessary(l)
\* perform exactly one content download in total, from every starting state.
C5_ExactlyOneDownload ==
    [][(/\ last.op = "install_if_necessary" /\ last.exc = "None"
        /\ last'.op = "install_if_necessary" /\ last'.exc = "None"
        /\ last'.language = last.language) =>
            Len(Downloads(last.io)) + Len(Downloads(last'.io)) = 1
      ]_vars

\* C5, amended: a successful install_if_necessary(l) performs exactly one
\* content download when l is not registered and no network request at all
\* when it is, in which case it changes neither registry nor files; of two
\* consecutive successful calls the second finds l registered and returns the
\* path the first returned, so that the two perform at most one download: one
\* if l was not registered before the first call, none if it was.
C5_Idempotence ==
    [][(last'.op = "install_if_necessary" /\ last'.exc = "None") =>
        /\ IF dictools_is_installed(Live, last'.language).ret
           THEN /\ Fetches(last'.io) = <<>>
                /\ Downloads(last'.io) = <<>>
                /\ Writes(last'.io) = <<>>
                /\ UNCHANGED <<dirExists, docExists, doc, files>>
                /\ last'.ret = filepath(Dictionaries(Live), last'.language).ret
           ELSE /\ Len(Downloads(last'.io)) = 1
                /\ last'.dl # 0
        /\ dictools_is_installed(Live', last'.language).ret
        /\ last'.ret = filepath(Dictionaries(Live'), last'.language).ret
        /\ (last.op = "install_if_necessary" /\ last.exc = "None"
              /\ last.language = last'.language) =>
                /\ last'.again
                /\ dictools_is_installed(Live, last'.language).ret
                /\ last'.ret = last.ret
                /\ Len(Downloads(last.io)) + Len(Downloads(last'.io)) <= 1
      ]_vars

\* C5 witness: the second of two consecutive successful calls has returned
\* the path of the dictionary without any request.
C5_Witness ==
    /\ last.op = "install_if_necessary"
    /\ last.again
    /\ last.exc = "None"
    /\ last.io = <<Ev("read", path)>>
    /\ last.ret = join(directory, "hyph_en_US.dic")
    /\ last.language = "en_GB"

\* the positions in io of the events of the kinds ks
Positions(io, ks) == {i \in 1..Len(io) : io[i].kind \in ks}

\* C14: a transport failure of a descriptor fetch never surfaces to the caller
\* of install: URLError is raised by install exactly when the content download
\* was requested and failed, and a call whose first fetch failed goes on to
\* succeed when the second one resolves; install is sequential: every fetch
\* precedes the one download, which precedes every write to the directory, so
\* nothing is written before the download has completed and a failed download
\* leaves registry and files unchanged.
C14_NetworkFailures ==
    [][(last'.op = "install") =>
        /\ (last'.exc = "URLError") <=> (Downloads(last'.io) # <<>> /\ last'.dl = 0)
        /\ (last'.use_description /\ last'.s1 = 0) =>
              /\ Fetches(last'.io) # <<>>
              /\ NoMetadata(last') => Downloads(last'.io) = <<>> /\ last'.exc # "URLError"
              /\ (~NoMetadata(last') /\ ~NoRecord(last') /\ last'.dl # 0 /\ dirExists) =>
                    last'.exc = "None"
        /\ Len(Downloads(last'.io)) <= 1
        /\ \A i \in Positions(last'.io, {"fetch"}), j \in Positions(last'.io, {"download"}) :
              i < j
        /\ \A i \in Positions(last'.io, {"download"}),
              j \in Positions(last'.io, {"write", "makedirs", "remove"}) : i < j
        /\ Writes(last'.io) # <<>> => Downloads(last'.io) # <<>> /\ last'.dl # 0
        /\ (Downloads(last'.io) # <<>> /\ last'.dl = 0) =>
              /\ Writes(last'.io) = <<>>
              /\ UNCHANGED <<dirExists, docExists, doc, files>>
      ]_vars

\* C14 witness: the first descriptor fetch failed, the second resolved en_US,
\* the download failed and was raised, on a registry that holds locales.
C14_Witness ==
    /\ last.op = "install"
    /\ last.use_description
    /\ last.language = "en_US"
    /\ last.s1 = 0
    /\ last.s2 = 1
    /\ last.dl = 0
    /\ last.exc = "URLError"
    /\ Len(last.io) = 3
    /\ doc # <<>>

\* the locales the hyphenation record of each document of Xcu declares, with
\* '_' for '-'
NormalizedLocales == << <<"en_US", "en_GB">>, <<"de">> >>

\* C13: the locale tokens of a record are returned with each '-' replaced by
\* '_' ("en-US en-GB" parses as en_US, en_GB), the language is matched against
\* the tokens so normalized, and a descriptor-based install registers the
\* normalized list, so that no locale key of the registry contains '-'.
C13_LocaleNormalization ==
    /\ \A i \in 1..Len(Xcu), o \in Origins(DEFAULT_REPOSITORY), l \in Locales :
          /\ Parsed[i, o, l].url # "" <=> l \in Range(NormalizedLocales[i])
          /\ Parsed[i, o, l].url # "" => Parsed[i, o, l].locales = NormalizedLocales[i]
          /\ \A j \in 1..Len(Parsed[i, o, l].locales) :
                ~contains(Parsed[i, o, l].locales[j], "-")
    /\ (/\ last.op = "install"
        /\ last.use_description
        /\ last.exc = "None") =>
            /\ Obtained(last) # 0
            /\ last.language \in Range(NormalizedLocales[Obtained(last)])
            /\ \A k \in Range(NormalizedLocales[Obtained(last)]) :
                  DocBinds(k, FileName(last.language), Downloads(last.io)[1].arg)
    /\ \A i \in 1..Len(doc) : ~contains(doc[i][1], "-")

\* C13 witness: en_GB was installed from the descriptor that lists
\* "en-US en-GB", and both en_US and en_GB are registered.
C13_Witness ==
    /\ last.op = "install"
    /\ last.use_description
    /\ last.language = "en_GB"
    /\ last.s1 = 1
    /\ last.exc = "None"
    /\ DocBinds("en_US", "hyph_en_GB.dic", DEFAULT_REPOSITORY \o "en_GB/hyph_en_US.dic")
    /\ DocBinds("en_GB", "hyph_en_GB.dic", DEFAULT_REPOSITORY \o "en_GB/hyph_en_US.dic")

\* C16: in every state reached by installs and uninstalls, the source_url of
\* each entry is the URL the current content of its file was fetched from: the
\* entries bound to the file an install has just written carry the URL it
\* downloaded; consequently the entries bound to one file carry one source_url.
C16_Provenance ==
    /\ (last.op = "install" /\ last.exc = "None") =>
          \A i \in 1..Len(doc) :
              doc[i][2] = FileName(last.language) => doc[i][3] = Downloads(last.io)[1].arg
    /\ \A i, j \in 1..Len(doc) : doc[i][2] = doc[j][2] => doc[i][3] = doc[j][3]

\* C20: after any sequence of installs and uninstalls made one at a time on
\* one directory, every dictionary file of the directory is bound to at least
\* one locale of the registry.
C20_NoOrphanedFile ==
    \A f \in DOMAIN files : \E i \in 1..Len(doc) : doc[i][2] = f

-----------------------------------------------------------------------------
(* Properties of the parser, under SpecParser *)

\* the nodes of the parsed document that are hyphenation records declaring the
\* language among their own locales and a location of their own
Matching ==
    {i \in 1..Len(last.nodes) :
        /\ ParserNodes[last.nodes[i]].hyph
        /\ last.language \in Range(ParserNodes[last.nodes[i]].locales)
        /\ ParserNodes[last.nodes[i]].file # ""}

\* C12: parse returns the first record in document order, among the nodes
\* detected as hyphenation records, whose own locale list contains language as
\* an exact string and which has a location of its own: the result is
\* (origin_url joined with its first location minus the 9-character prefix,
\* its locale list); later matching records are ignored; with no such record
\* the result is (None, []).  Locales and location of one record never carry
\* over to the next.
C12_ParserSelection ==
    (last.op = "parse") =>
        /\ last.exc = "None"
        /\ IF Matching = {}
           THEN last.url = "" /\ last.locales = <<>>
           ELSE /\ last.url = last.origin_url \o "/" \o ParserNodes[last.nodes[First(Matching)]].file
                /\ last.locales = ParserNodes[last.nodes[First(Matching)]].locales

\* C12 witness: en_GB was looked up in a document that holds a record with a
\* location and no locales, one with en_GB and no location, and then two
\* records that match, of which the first was returned.
C12_Witness ==
    /\ last.op = "parse"
    /\ last.language = "en_GB"
    /\ last.nodes = <<4, 3, 2>>
    /\ last.url = last.origin_url \o "/hyph_en_GB.dic"
    /\ last.locales = <<"en_GB">>

-----------------------------------------------------------------------------
(* Properties of the calls made step by step, under SpecSteps *)

\* every entry of the in-memory mapping and of the registry document names a
\* dictionary file that is on disk
NoDangling ==
    \A e \in Entries(_data) \cup Entries(json_load(doc)) : e.file \in DOMAIN files

\* C17: for one instance driven by add and remove, in every state, those
\* between the steps of add (write file, bind locales, persist) and of remove
\* (unbind locales, persist, delete file) included, every entry of the
\* in-memory mapping and of the registry document names a file that is on
\* disk (the first state has no entry); a file is deleted only when no entry
\* of the registry document references it.
C17_NoDanglingEntry ==
    [][/\ NoDangling'
       /\ \A f \in DOMAIN files \ DOMAIN files' :
             \A e \in Entries(json_load(doc)) : e.file # f
      ]_vars

\* C17 witness: a remove of a file shared by two locales has unbound them and
\* saved the mapping, and is about to delete the file, next to other entries.
C17_Witness ==
    /\ At("remove", "unlink")
    /\ Len(calls[1].languages) = 2
    /\ calls[1].filename \in DOMAIN files
    /\ \A e \in Entries(json_load(doc)) : e.file # calls[1].filename
    /\ doc # <<>>

-----------------------------------------------------------------------------
(* Properties of the two concurrent installs, under SpecRace *)

\* the place in the log of the access <<p, kind>>, which is made at most once
LogAt(p, kind) == CHOOSE i \in 1..Len(calls.log) : calls.log[i] = <<p, kind>>

\* the registry document lacks the language process p has installed
Lost(p) == \A i \in 1..Len(doc) : doc[i][1] # calls.proc[p].language

\* C18: two processes install different languages into the same directory
\* with no lock on the registry document: when both installs have returned,
\* both dictionary files are on disk, and the document lacks the language of
\* one of them exactly when the other process read the document before that
\* language was written to it and wrote the document after - an interleaving
\* that is reachable (C18_Witness), so an update can be lost.
C18_LostUpdate ==
    (\A p \in Procs : calls.proc[p].pc = "returned") =>
        /\ \A p \in Procs :
              /\ calls.proc[p].exc = "None"
              /\ calls.proc[p].ret = join(directory, FileName(calls.proc[p].language))
              /\ FileName(calls.proc[p].language) \in DOMAIN files
              /\ Lost(p) <=> /\ LogAt(Other(p), "read") < LogAt(p, "write")
                             /\ LogAt(p, "write") < LogAt(Other(p), "write")
        /\ \E p \in Procs : ~Lost(p)

\* C18 witness: both installs have returned their paths, the dictionary of
\* process 1 is on disk, and the registry document does not hold its language.
C18_Witness ==
    /\ \A p \in Procs : calls.proc[p].pc = "returned" /\ calls.proc[p].exc = "None"
    /\ FileName(calls.proc[1].language) \in DOMAIN files
    /\ FileName(calls.proc[2].language) \in DOMAIN files
    /\ Lost(1)
    /\ ~Lost(2)

-----------------------------------------------------------------------------
(* Properties of the live instance beside other instances, under SpecShared *)

\* the mapping the registry document holds
Document_data == IF docExists THEN json_load(doc) ELSE <<>>

\* C19: an instance reads the document at most once, on its first access, and
\* then answers from its mapping in memory, so that what another instance has
\* persisted since is not visible to it; reload discards the mapping, and the
\* next access reads the document again and reflects the persisted state.
\* Hence in install_if_necessary, when the nested install has succeeded, the
\* reloaded registry holds the language and filepath(language) succeeds.
C19_LazyLoadReload ==
    [][/\ last'.op \in {"is_installed", "installed_languages", "filepath"} =>
             /\ IF loaded
                THEN last'.io = <<>> /\ _data' = _data
                ELSE /\ _data' = Document_data
                     /\ last'.io = IF docExists THEN <<Ev("read", path)>> ELSE <<>>
             /\ loaded'
             /\ last'.op = "is_installed" => last'.ret = has(_data', last'.language)
             /\ last'.op = "installed_languages" => Range(last'.ret) = Keys(_data')
             /\ last'.op = "filepath" =>
                   IF has(_data', last'.language)
                   THEN last'.ret = join(directory, get(_data', last'.language).file)
                   ELSE last'.exc = "KeyError"
             /\ UNCHANGED <<dirExists, docExists, doc, files>>
       /\ last'.op = "reload" =>
             /\ ~loaded'
             /\ last'.io = <<>>
             /\ UNCHANGED <<dirExists, docExists, doc, files>>
             /\ View' = Document_data'
             /\ \A l \in Locales : is_installed(Live', l).ret = has(Document_data', l)
       /\ last'.op \in {"install_if_necessary", "uninstall"} =>
             UNCHANGED <<loaded, _data>>
       /\ last'.op = "install_if_necessary" =>
             /\ (Downloads(last'.io) # <<>> /\ last'.dl # 0 /\ dirExists) =>
                   last'.exc = "None"
             /\ last'.exc = "None" =>
                   /\ has(Document_data', last'.language)
                   /\ last'.ret = join(directory, get(Document_data', last'.language).file)
      ]_vars

\* C19 witness: the live instance, loaded before another instance installed
\* en_US, has answered from memory that en_US is not installed, without
\* reading the document that holds it.
C19_Witness ==
    /\ last.op = "is_installed"
    /\ last.language = "en_US"
    /\ last.ret = FALSE
    /\ last.io = <<>>
    /\ loaded
    /\ has(Document_data, "en_US")

TypeOK ==
    /\ dirExists \in BOOLEAN
    /\ docExists \in BOOLEAN
    /\ loaded \in BOOLEAN
    /\ docExists => dirExists
====
